---------------------------- MODULE Spec2Model ----------------------------
(***************************************************************************)
(* Model of grid.py: the Grid of stellar-atmosphere nodes.                 *)
(*                                                                         *)
(* A file is represented by the two attributes Node.__init__ reads from    *)
(* it (Teff, logg); the payload f['data'] is never inspected by Grid and   *)
(* is left out.  A Node object is identified by the position of its file   *)
(* in the filenames list (two Nodes read from equal attributes are still   *)
(* two objects).  Arrays keep the source's 0-based indices: an array of    *)
(* length n is a function on 0..n-1, a 2-D array a function on pairs.      *)
(* Attribute values are the even numbers 2, 4, ..., so that every gap      *)
(* between two axis values holds a query strictly inside it.  The floats   *)
(* of the source are integers here: only their order and equality are      *)
(* used by Grid (NaN attributes or queries are not modelled).  Output is   *)
(* kept only for find_derivs and show_topology; locate's debug print is    *)
(* modelled by the array reads it makes.                                   *)
(***************************************************************************)
EXTENDS Integers, Sequences, FiniteSets

\* ---------------------------------------------------------------- bounds
MaxFiles == 3      \* longest filenames list
MaxAxis == 6       \* largest axis value in the stand-alone bisection runs

\* The attribute values found in the files, and the values callers ask about:
\* below, on, between and above them.
TeffVals == {2, 4, 6}
loggVals == {2, 4, 6}
TeffQueries == 1..7
loggQueries == 1..7
Files == [Teff : TeffVals, logg : loggVals]

RECURSIVE SeqsUpTo(_, _)
SeqsUpTo(S, n) ==
    IF n = 0 THEN {<<>>}
    ELSE LET shorter == SeqsUpTo(S, n - 1)
         IN  shorter \cup {Append(s, x) : s \in {t \in shorter : Len(t) = n - 1}, x \in S}

VARIABLES
    pc,          \* the caller: "start" before Grid(...), "failed" if that raised,
                 \* "returned" when a call has just ended, "ready" for the next
    filenames,   \* argument of Grid.__init__: the files, in the order given
    debug,       \* self.debug
    Teff_axis,   \* self.Teff_axis
    logg_axis,   \* self.logg_axis
    n_Teff,      \* self.n_Teff
    n_logg,      \* self.n_logg
    nodes,       \* self.nodes
    neighbors,   \* self.neighbors
    result,      \* the last call: its name, arguments, return value, exception, output
    b_pc,        \* bisection loop of locate_x, one iteration at a time: position
    x,           \* locate_x: x
    x_axis,      \* locate_x: x_axis
    k_0,         \* locate_x: k_0
    k_1,         \* locate_x: k_1
    k            \* locate_x: k (the last index probed)

grid == <<Teff_axis, logg_axis, n_Teff, n_logg, nodes, neighbors>>
loop == <<b_pc, x, x_axis, k_0, k_1, k>>
vars == <<pc, filenames, debug, grid, result, loop>>

\* ------------------------------------------------------- Python / numpy
None == [cls |-> "NoneType"]

isinstance_Node(obj) == obj.cls = "Node"

EmptyArray == [i \in {} |-> None]

\* a[idx] on an array of length n raises IndexError unless -n <= idx < n
index_ok(idx, n) == (0 - n <= idx) /\ (idx < n)

\* a[idx], with Python's negative indices counted from the end
at(a, n, idx) == IF idx < 0 THEN a[idx + n] ELSE a[idx]

\* np.unique: the distinct values, ascending
np_unique(S) ==
    [i \in 0..(Cardinality(S) - 1) |->
        CHOOSE v \in S : Cardinality({w \in S : w < v}) = i]

\* np.where(v == axis)[0][0]: the first index holding v
np_where_0_0(v, axis) ==
    CHOOSE i \in DOMAIN axis : axis[i] = v /\ \A h \in DOMAIN axis : h < i => axis[h] # v

\* v in axis
contains(axis, v) == \E i \in DOMAIN axis : axis[i] = v

\* ------------------------------------------------------------------ Node
Node(p, files) ==
    [cls |-> "Node", filename |-> p, Teff |-> files[p].Teff, logg |-> files[p].logg]


\* ------------------------------------------------------- find_neighbors
\* Mutant: the lower bounds 0 <= j_Teff, 0 <= j_logg left out, so that an
\* index of -1 reads the last row or column as Python's indexing does.
find_neighbors_wrap(nodes_, n_Teff_, n_logg_, ij) ==
    [e \in (0..2) \X (0..2) |->
        LET h == e[1] - 1
            kk == e[2] - 1
            j_Teff == ij[1] + h
            j_logg == ij[2] + kk
        IN  /\ j_Teff < n_Teff_
            /\ j_logg < n_logg_
            /\ n_Teff_ > 0 /\ n_logg_ > 0
            /\ isinstance_Node(nodes_[<<j_Teff % n_Teff_, j_logg % n_logg_>>])]

\* Mutant: the upper bound on j_Teff off by one.
find_neighbors_short(nodes_, n_Teff_, n_logg_, ij) ==
    [e \in (0..2) \X (0..2) |->
        LET h == e[1] - 1
            kk == e[2] - 1
            j_Teff == ij[1] + h
            j_logg == ij[2] + kk
        IN  /\ (0 <= j_Teff /\ j_Teff < n_Teff_ - 1)
            /\ (0 <= j_logg /\ j_logg < n_logg_)
            /\ isinstance_Node(nodes_[<<j_Teff, j_logg>>])]

\* The 3x3 stencil of cell ij; entry <<h+1, k+1>> answers for (ij[0]+h, ij[1]+k).
\* Takes the arrays as arguments: __init__ calls it while it builds the grid.
find_neighbors(nodes_, n_Teff_, n_logg_, ij) ==
    [e \in (0..2) \X (0..2) |->
        LET h == e[1] - 1
            kk == e[2] - 1
            j_Teff == ij[1] + h
            j_logg == ij[2] + kk
        IN  /\ (0 <= j_Teff /\ j_Teff < n_Teff_)
            /\ (0 <= j_logg /\ j_logg < n_logg_)
            /\ isinstance_Node(nodes_[<<j_Teff, j_logg>>])]

\* ------------------------------------------------------------- __init__
\* The loop that stores every node of nodes_list in the 2-D array, in order.
RECURSIVE place_nodes(_, _, _, _)
place_nodes(arr, nodes_list, Ta, La) ==
    IF nodes_list = <<>> THEN arr
    ELSE LET node == Head(nodes_list)
             i_Teff == np_where_0_0(node.Teff, Ta)
             i_logg == np_where_0_0(node.logg, La)
         IN  place_nodes([arr EXCEPT ![<<i_Teff, i_logg>>] = node],
                         Tail(nodes_list), Ta, La)

Call(op, args, ret, exc, msg, out) ==
    [op |-> op, args |-> args, ret |-> ret, exc |-> exc, msg |-> msg, out |-> out]

Grid_init ==
    /\ pc = "start"
    /\ IF Len(filenames) = 0
       THEN /\ pc' = "failed"
            /\ result' = Call("__init__", <<>>, None, "Exception", "Empty grid", <<>>)
            /\ UNCHANGED grid
       ELSE LET nodes_list == [p \in 1..Len(filenames) |-> Node(p, filenames)]
                Ta == np_unique({nodes_list[p].Teff : p \in 1..Len(filenames)})
                La == np_unique({nodes_list[p].logg : p \in 1..Len(filenames)})
                nT == Cardinality(DOMAIN Ta)
                nL == Cardinality(DOMAIN La)
                cells == (0..(nT - 1)) \X (0..(nL - 1))
                arr == place_nodes([c \in cells |-> None], nodes_list, Ta, La)
            IN  /\ Teff_axis' = Ta
                /\ logg_axis' = La
                /\ n_Teff' = nT
                /\ n_logg' = nL
                /\ nodes' = arr
                /\ neighbors' = [c \in cells |-> find_neighbors(arr, nT, nL, c)]
                /\ pc' = "returned"
                /\ result' = Call("__init__", <<>>, None, "", "", <<>>)
    /\ UNCHANGED <<filenames, debug, loop>>

\* --------------------------------------------------------------- lookup
\* Mutant: "or" for "and" in the membership test; np.where(...)[0][0] then
\* raises IndexError for the value that is on no axis.
lookup_or(Teff, logg) ==
    IF contains(Teff_axis, Teff) \/ contains(logg_axis, logg)
    THEN IF ~ contains(Teff_axis, Teff) \/ ~ contains(logg_axis, logg)
         THEN Call("lookup", <<Teff, logg>>, None, "IndexError", "index out of bounds", <<>>)
         ELSE LET node == nodes[<<np_where_0_0(Teff, Teff_axis), np_where_0_0(logg, logg_axis)>>]
              IN  Call("lookup", <<Teff, logg>>, IF isinstance_Node(node) THEN node ELSE None,
                       "", "", <<>>)
    ELSE Call("lookup", <<Teff, logg>>, None, "", "", <<>>)

lookup(Teff, logg) ==
    IF contains(Teff_axis, Teff) /\ contains(logg_axis, logg)
    THEN LET i_Teff == np_where_0_0(Teff, Teff_axis)
             i_logg == np_where_0_0(logg, logg_axis)
             node == nodes[<<i_Teff, i_logg>>]
         IN  IF isinstance_Node(node)
             THEN Call("lookup", <<Teff, logg>>, node, "", "", <<>>)
             ELSE Call("lookup", <<Teff, logg>>, None, "", "", <<>>)
    ELSE Call("lookup", <<Teff, logg>>, None, "", "", <<>>)

Grid_lookup ==
    /\ pc = "ready"
    /\ \E Teff \in TeffQueries, logg \in loggQueries : result' = lookup(Teff, logg)
    /\ pc' = "returned"
    /\ UNCHANGED <<filenames, debug, grid, loop>>

\* --------------------------------------------------------------- locate
\* One pass of the while loop's body: the pair <<k_0, k_1>> after probing k.
bisect_probe(lo, hi) == (lo + hi) \div 2

\* Mutant: x > x_axis[k] for x >= x_axis[k].
bisect_body_strict(xq, axis, lo, hi) ==
    LET mid == bisect_probe(lo, hi)
    IN  IF xq > axis[mid] THEN <<mid, hi>> ELSE <<lo, mid>>

bisect_body(xq, axis, lo, hi) ==
    LET mid == bisect_probe(lo, hi)
    IN  IF xq >= axis[mid] THEN <<mid, hi>> ELSE <<lo, mid>>

RECURSIVE bisect_loop(_, _, _, _)
bisect_loop(xq, axis, lo, hi) ==
    IF (hi - lo) > 1
    THEN LET b == bisect_body(xq, axis, lo, hi)
         IN  bisect_loop(xq, axis, b[1], b[2])
    ELSE lo

\* Mutant: the special case x == x_axis[-1] left out.
locate_x_no_last(xq, axis) ==
    IF xq = axis[0] THEN 0
    ELSE bisect_loop(xq, axis, 0 - 1, Cardinality(DOMAIN axis))

locate_x(xq, axis) ==
    LET n == Cardinality(DOMAIN axis)
    IN  IF xq = axis[0] THEN 0
        ELSE IF xq = at(axis, n, 0 - 1) THEN n - 2
        ELSE bisect_loop(xq, axis, 0 - 1, n)

\* Mutant: >= for > in the two upper range checks.
locate_ge(Teff, logg) ==
    IF (Teff < Teff_axis[0]) \/ (Teff >= at(Teff_axis, n_Teff, 0 - 1))
    THEN Call("locate", <<Teff, logg>>, None, "IndexError", "Teff outside axis range", <<>>)
    ELSE IF (logg < logg_axis[0]) \/ (logg >= at(logg_axis, n_logg, 0 - 1))
    THEN Call("locate", <<Teff, logg>>, None, "IndexError", "logg outside axis range", <<>>)
    ELSE Call("locate", <<Teff, logg>>,
              <<locate_x(Teff, Teff_axis), locate_x(logg, logg_axis)>>, "", "", <<>>)

locate(Teff, logg) ==
    IF (Teff < Teff_axis[0]) \/ (Teff > at(Teff_axis, n_Teff, 0 - 1))
    THEN Call("locate", <<Teff, logg>>, None, "IndexError", "Teff outside axis range", <<>>)
    ELSE IF (logg < logg_axis[0]) \/ (logg > at(logg_axis, n_logg, 0 - 1))
    THEN Call("locate", <<Teff, logg>>, None, "IndexError", "logg outside axis range", <<>>)
    ELSE LET i == locate_x(Teff, Teff_axis)
             j == locate_x(logg, logg_axis)
         IN  IF debug /\ ~ (/\ index_ok(i, n_Teff) /\ index_ok(i + 1, n_Teff)
                            /\ index_ok(j, n_logg) /\ index_ok(j + 1, n_logg))
             THEN Call("locate", <<Teff, logg>>, None, "IndexError",
                       "index out of bounds", <<>>)
             ELSE Call("locate", <<Teff, logg>>, <<i, j>>, "", "", <<>>)

Grid_locate ==
    /\ pc = "ready"
    /\ \E Teff \in TeffQueries, logg \in loggQueries : result' = locate(Teff, logg)
    /\ pc' = "returned"
    /\ UNCHANGED <<filenames, debug, grid, loop>>

\* ------------------------------------------------------- find_neighbors
\* The public call (show=False; show=True only prints the same stencil).
CellArgs == ((0 - 1)..n_Teff) \X ((0 - 1)..n_logg)

Grid_find_neighbors ==
    /\ pc = "ready"
    /\ \E ij \in CellArgs :
          result' = Call("find_neighbors", <<ij>>,
                         find_neighbors(nodes, n_Teff, n_logg, ij), "", "", <<>>)
    /\ pc' = "returned"
    /\ UNCHANGED <<filenames, debug, grid, loop>>

\* ---------------------------------------------------------- find_derivs
\* The offsets <<i, j>> in the order the two for loops visit them.
deriv_offsets == << <<0 - 1, 0 - 1>>, <<1, 0 - 1>>, <<0 - 1, 1>>, <<1, 1>> >>

\* The loop body: read Teff_axis[ij[0]+i] and logg_axis[ij[1]+j], then print
\* nbrs[i+1, j+1] when show is set.  out collects the values printed.
RECURSIVE derivs_loop(_, _, _, _, _)
derivs_loop(ij, show, nbrs, todo, out) ==
    IF todo = <<>>
    THEN Call("find_derivs", <<ij, show>>, None, "", "", out)
    ELSE LET i == Head(todo)[1]
             j == Head(todo)[2]
         IN  IF ~ index_ok(ij[1] + i, n_Teff) \/ ~ index_ok(ij[2] + j, n_logg)
             THEN Call("find_derivs", <<ij, show>>, None, "IndexError",
                       "index out of bounds", out)
             ELSE derivs_loop(ij, show, nbrs, Tail(todo),
                              IF show THEN Append(out, nbrs[<<i + 1, j + 1>>]) ELSE out)

find_derivs(ij, show) ==
    IF ~ index_ok(ij[1], n_Teff) \/ ~ index_ok(ij[2], n_logg)
    THEN Call("find_derivs", <<ij, show>>, None, "IndexError", "index out of bounds", <<>>)
    ELSE derivs_loop(ij, show, find_neighbors(nodes, n_Teff, n_logg, ij),
                     deriv_offsets, <<>>)

Grid_find_derivs ==
    /\ pc = "ready"
    /\ \E ij \in CellArgs, show \in BOOLEAN : result' = find_derivs(ij, show)
    /\ pc' = "returned"
    /\ UNCHANGED <<filenames, debug, grid, loop>>

\* -------------------------------------------------------- show_topology
\* out: one row per logg index, "X" for a Node and "." for an empty cell.
show_topology ==
    Call("show_topology", <<>>, None, "", "",
         [r \in 1..n_logg |->
            [c \in 1..n_Teff |->
                IF isinstance_Node(nodes[<<c - 1, r - 1>>]) THEN "X" ELSE "."]])

Grid_show_topology ==
    /\ pc = "ready"
    /\ result' = show_topology
    /\ pc' = "returned"
    /\ UNCHANGED <<filenames, debug, grid, loop>>

\* ------------------------------------------------------- specification
NoCall == Call("", <<>>, None, "", "", <<>>)

Init ==
    /\ pc = "start"
    /\ filenames \in SeqsUpTo(Files, MaxFiles)
    /\ debug \in BOOLEAN
    /\ Teff_axis = EmptyArray
    /\ logg_axis = EmptyArray
    /\ n_Teff = 0
    /\ n_logg = 0
    /\ nodes = EmptyArray
    /\ neighbors = EmptyArray
    /\ result = NoCall
    /\ b_pc = "idle"
    /\ x = 0
    /\ x_axis = EmptyArray
    /\ k_0 = 0
    /\ k_1 = 0
    /\ k = 0

\* The caller is done with what the last call returned or raised (locate's
\* IndexError is caught by the caller) and goes on to its next call.
Caller_continue ==
    /\ pc = "returned"
    /\ pc' = "ready"
    /\ result' = NoCall
    /\ UNCHANGED <<filenames, debug, grid, loop>>

Next ==
    \/ Grid_init
    \/ Grid_lookup
    \/ Grid_locate
    \/ Grid_find_neighbors
    \/ Grid_find_derivs
    \/ Grid_show_topology
    \/ Caller_continue

Spec == Init /\ [][Next]_vars

\* ------------------------------------- the bisection loop, step by step
\* locate reaches the loop of locate_x only with a query inside the closed
\* range of the axis that equals neither end of it, hence with an axis of two
\* or more values: those are the loop's entry states.
LoopAxes == {np_unique(S) : S \in {T \in SUBSET (1..MaxAxis) : Cardinality(T) >= 2}}

len(axis) == Cardinality(DOMAIN axis)

InitBisect ==
    /\ pc = "start"
    /\ filenames = <<>>
    /\ debug = FALSE
    /\ Teff_axis = EmptyArray
    /\ logg_axis = EmptyArray
    /\ n_Teff = 0
    /\ n_logg = 0
    /\ nodes = EmptyArray
    /\ neighbors = EmptyArray
    /\ result = NoCall
    /\ b_pc = "while"
    /\ x_axis \in LoopAxes
    /\ x \in {q \in 1..MaxAxis : x_axis[0] < q /\ q < x_axis[len(x_axis) - 1]}
    /\ k_0 = 0 - 1
    /\ k_1 = len(x_axis)
    /\ k = 0 - 1

\* while (k_1 - k_0) > 1: one pass of the body
Bisect_iter ==
    /\ b_pc = "while"
    /\ (k_1 - k_0) > 1
    /\ k' = bisect_probe(k_0, k_1)
    /\ k_0' = bisect_body(x, x_axis, k_0, k_1)[1]
    /\ k_1' = bisect_body(x, x_axis, k_0, k_1)[2]
    /\ UNCHANGED <<b_pc, x, x_axis, pc, filenames, debug, grid, result>>

\* the loop ends: k = k_0; return k
Bisect_exit ==
    /\ b_pc = "while"
    /\ ~ ((k_1 - k_0) > 1)
    /\ k' = k_0
    /\ b_pc' = "return"
    /\ UNCHANGED <<k_0, k_1, x, x_axis, pc, filenames, debug, grid, result>>

NextBisect == Bisect_iter \/ Bisect_exit

\* The interpreter runs the loop on: no pass of it waits for anything.
SpecBisect == InitBisect /\ [][NextBisect]_vars /\ WF_vars(NextBisect)

\* ================================================================ claims
\* A Grid exists: __init__ has returned.
Built == pc \in {"ready", "returned"}

\* Some file of the list carries exactly the attributes (T, g).
Backed(T, g) == \E p \in 1..Len(filenames) : filenames[p].Teff = T /\ filenames[p].logg = g

\* Cell (i, j) of the axis cross-product is backed by an input file.
Occupied(i, j) ==
    /\ i \in 0..(n_Teff - 1)
    /\ j \in 0..(n_logg - 1)
    /\ Backed(Teff_axis[i], logg_axis[j])

InRange(q, axis, n) == axis[0] <= q /\ q <= axis[n - 1]

LocateCalled == pc = "returned" /\ result.op = "locate"
LocateInRange ==
    /\ LocateCalled
    /\ InRange(result.args[1], Teff_axis, n_Teff)
    /\ InRange(result.args[2], logg_axis, n_logg)

\* The boundary law on one axis, as the claim words it.
BoundaryLaw(q, axis, n, idx) ==
    /\ q = axis[0] => idx = 0
    /\ q = axis[n - 1] => idx = n - 2
    /\ \A c \in 0..(n - 2) : (axis[c] <= q /\ q < axis[c + 1]) => idx = c

\* The same with the last-value case kept to axes that have an interval.
BoundaryLawFrom2(q, axis, n, idx) ==
    /\ q = axis[0] => idx = 0
    /\ (q = axis[n - 1] /\ n >= 2) => idx = n - 2
    /\ \A c \in 0..(n - 2) : (axis[c] <= q /\ q < axis[c + 1]) => idx = c

LocateValidInterval ==
    LocateInRange =>
        /\ result.exc = ""
        /\ 0 <= result.ret[1] /\ result.ret[1] <= n_Teff - 2
        /\ 0 <= result.ret[2] /\ result.ret[2] <= n_logg - 2

OutOfRangeRaised ==
    /\ result.exc = "IndexError"
    /\ result.msg \in {"Teff outside axis range", "logg outside axis range"}

\* C3: locate raises the out-of-range error, and returns no pair, exactly
\* when the query is below the first or above the last value of an axis.
LocateRangeLaw ==
    LocateCalled =>
        /\ OutOfRangeRaised <=> ~ LocateInRange
        /\ OutOfRangeRaised => result.ret = None

\* C3 witness: a query in range on Teff and above the last logg value raised.
LocateRangeWitness ==
    /\ LocateCalled
    /\ OutOfRangeRaised
    /\ n_logg >= 2
    /\ InRange(result.args[1], Teff_axis, n_Teff)
    /\ result.args[2] > logg_axis[n_logg - 1]

\* C4 as stated: no grid is produced from a list in which two files carry the
\* same (Teff, logg) pair.
DuplicateNodeRejected ==
    Built => \A p, q \in 1..Len(filenames) :
                (p # q) => <<filenames[p].Teff, filenames[p].logg>>
                             # <<filenames[q].Teff, filenames[q].logg>>

LookupCalled == pc = "returned" /\ result.op = "lookup"

\* C5 as stated: lookup at the attributes of any file of the list returns the
\* Node read from that file.
OccupancyRoundTrip ==
    LookupCalled =>
        \A p \in 1..Len(filenames) :
            (filenames[p].Teff = result.args[1] /\ filenames[p].logg = result.args[2])
                => result.ret = Node(p, filenames)

\* C6: lookup returns None without raising when Teff is no value of
\* Teff_axis, or logg no value of logg_axis, or no file carries the pair.
LookupAbsent ==
    (/\ LookupCalled
     /\ \/ \A i \in 0..(n_Teff - 1) : Teff_axis[i] # result.args[1]
        \/ \A j \in 0..(n_logg - 1) : logg_axis[j] # result.args[2]
        \/ ~ Backed(result.args[1], result.args[2]))
    => (result.ret = None /\ result.exc = "")

\* C6 witness: a lookup at a hole, both values on their axes.
LookupHoleWitness ==
    /\ LookupCalled
    /\ \E i \in 0..(n_Teff - 1) : Teff_axis[i] = result.args[1]
    /\ \E j \in 0..(n_logg - 1) : logg_axis[j] = result.args[2]
    /\ ~ Backed(result.args[1], result.args[2])
    /\ result.ret = None

\* C7: after construction and any calls, every cell of the axis cross-product
\* has a stored stencil whose entry (dh+1, dk+1) is true exactly when
\* (i+dh, j+dk) is inside the axes and backed by a file.
StencilConsistency ==
    Built =>
        /\ DOMAIN neighbors = (0..(n_Teff - 1)) \X (0..(n_logg - 1))
        /\ \A i \in 0..(n_Teff - 1), j \in 0..(n_logg - 1) :
              \A dh \in (0 - 1)..1, dk \in (0 - 1)..1 :
                  neighbors[<<i, j>>][<<dh + 1, dk + 1>>] <=> Occupied(i + dh, j + dk)

\* C7 witness: a 3x3 grid with an empty centre cell, after a later call.
StencilWitness ==
    /\ pc = "returned"
    /\ result.op \in {"lookup", "locate", "find_neighbors", "find_derivs"}
    /\ n_Teff = 3
    /\ n_logg = 3
    /\ ~ Occupied(1, 1)
    /\ neighbors[<<1, 1>>][<<0, 2>>]
    /\ ~ neighbors[<<1, 1>>][<<1, 1>>]

Interior(i, j) == 0 < i /\ i < n_Teff - 1 /\ 0 < j /\ j < n_logg - 1

\* C8 as stated: at interior points, if (i, j) is occupied and the stencil of
\* (i+1, j) reports it, the stencil of (i, j) reports (i+1, j).
NeighborSymmetry ==
    Built =>
        \A i \in 0..(n_Teff - 1), j \in 0..(n_logg - 1) :
            (Interior(i, j) /\ Occupied(i, j) /\ neighbors[<<i + 1, j>>][<<0, 1>>])
                => neighbors[<<i, j>>][<<2, 1>>]

\* C8 amended: if (i, j) is occupied and the stencil of (i+1, j) reports it,
\* the stencil of (i, j) reports (i+1, j) exactly when (i+1, j) is occupied
\* itself (an empty cell has a stencil too); at every cell, interior or not.
NeighborSymmetryOccupied ==
    Built =>
        \A i \in 0..(n_Teff - 2), j \in 0..(n_logg - 1) :
            (Occupied(i, j) /\ neighbors[<<i + 1, j>>][<<0, 1>>])
                => (neighbors[<<i, j>>][<<2, 1>>] <=> Occupied(i + 1, j))

\* C8 witness: two occupied cells side by side along Teff, the first one
\* inside the Teff axis, each reported by the other's stencil.
NeighborSymmetryWitness ==
    /\ Built
    /\ n_Teff = 3
    /\ \E j \in 0..(n_logg - 1) :
          /\ Occupied(1, j)
          /\ Occupied(2, j)
          /\ neighbors[<<2, j>>][<<0, 1>>]
          /\ neighbors[<<1, j>>][<<2, 1>>]

\* C9 as stated: find_derivs on any cell inside the axes raises nothing and
\* reports, for the diagonals in loop order, whether each is inside the axes
\* and occupied.
DerivsNoError ==
    (/\ pc = "returned"
     /\ result.op = "find_derivs"
     /\ result.args[1][1] \in 0..(n_Teff - 1)
     /\ result.args[1][2] \in 0..(n_logg - 1))
    => /\ result.exc = ""
       /\ result.args[2] =>
            result.out = [d \in 1..4 |->
                            Occupied(result.args[1][1] + deriv_offsets[d][1],
                                     result.args[1][2] + deriv_offsets[d][2])]

\* C10: from k_0 = -1, k_1 = n on an axis of two or more values and a query
\* strictly between its ends, every pass of the loop narrows k_1 - k_0 and
\* probes an index in 0..n-1, the loop ends, and it ends with 0 <= k_0 <= n-2
\* and x_axis[k_0] <= x < x_axis[k_0 + 1].
BisectionConvergence ==
    /\ [][b_pc = "while" =>
            /\ b_pc' = "while" =>
                  /\ k_1' - k_0' < k_1 - k_0
                  /\ 0 <= k' /\ k' <= len(x_axis) - 1
            /\ b_pc' = "return" => k_1 - k_0 = 1]_loop
    /\ [](b_pc = "return" =>
            /\ k = k_0
            /\ 0 <= k /\ k <= len(x_axis) - 2
            /\ x_axis[k] <= x /\ x < x_axis[k + 1])
    /\ <>(b_pc = "return")

\* C10 witness: the loop has ended on an axis with unequal gaps, the query on
\* an inner axis value, after probing more than once.
BisectionWitness ==
    /\ b_pc = "return"
    /\ len(x_axis) >= 4
    /\ x_axis[1] - x_axis[0] # x_axis[2] - x_axis[1]
    /\ x = x_axis[k]
    /\ k >= 2

=============================================================================
